---- MODULE Spec2Model ----
(***************************************************************************)
(* Library management console application (ycsek/BCS016_Final_Project).   *)
(*                                                                         *)
(* The three relational tables (users, books, loans), the session          *)
(* descriptor returned by login_user and the handlers of operations.py     *)
(* are modelled.  Every handler is one action: all its queries run in      *)
(* order inside the action.  SpecConc alone splits borrow_book into its    *)
(* four queries, to interleave two terminals.                              *)
(*                                                                         *)
(* Strings are sequences of symbols: a capability word, "," or " " is one  *)
(* symbol.  SQL NULL / Python None is the empty tuple, a present value v   *)
(* is <<v>>.  Columns no handler branches on (isbn, phone, password_hash,  *)
(* created_at) are left out.  SELECT queries are taken to succeed; the     *)
(* commit-mode queries succeed or fail as the ok flags of each action say. *)
(***************************************************************************)
EXTENDS Integers, Sequences, FiniteSets, TLC

VARIABLES users, books, loans, nextUserId, nextBookId, nextLoanId,
          session, today, out, procs, faults

vars == <<users, books, loans, nextUserId, nextBookId, nextLoanId,
          session, today, out, procs, faults>>

tables == <<users, books, loans>>

-----------------------------------------------------------------------------
(* Bounds of the model *)

MaxBooks == 2
MaxLoans == 2
MaxUsers == 4
MaxQty == 1
MaxDay == 1
MaxPermLen == 3
MaxRepeat == 2
MaxFaults == 1

(* Program constants *)

LoanDays == 14

-----------------------------------------------------------------------------
(* Values *)

NULL == <<>>

Some(v) == <<v>>

Roles == {"reader", "admin", "superadmin"}

AllPerms == {"add_book", "update_book", "delete_book",
             "add_user", "update_user", "delete_user", "view_reports"}

(* the message the handler op displays last *)
Msg(op, result) == [op |-> op, result |-> result]

Remove(f, k) == [i \in DOMAIN f \ {k} |-> f[i]]

(* dict.get(key): None when the row does not carry the column *)
Get(row, key) == IF key \in DOMAIN row THEN Some(row[key]) ELSE NULL

-----------------------------------------------------------------------------
(* Permission strings *)

RECURSIVE LStrip(_)
LStrip(s) == IF s # <<>> /\ Head(s) = " " THEN LStrip(Tail(s)) ELSE s

RECURSIVE RStrip(_)
RStrip(s) ==
    IF s # <<>> /\ s[Len(s)] = " " THEN RStrip(SubSeq(s, 1, Len(s) - 1)) ELSE s

Strip(s) == RStrip(LStrip(s))

(* str.split(","): the pieces between the commas, empty pieces included *)
RECURSIVE SplitFrom(_, _, _)
SplitFrom(s, i, piece) ==
    IF i > Len(s) THEN <<piece>>
    ELSE IF s[i] = "," THEN <<piece>> \o SplitFrom(s, i + 1, <<>>)
    ELSE SplitFrom(s, i + 1, Append(piece, s[i]))

Split(s) == SplitFrom(s, 1, <<>>)

Range(f) == {f[i] : i \in DOMAIN f}

has_permission_nostrip(user_permissions, required_permission) ==
    IF user_permissions = NULL \/ user_permissions = Some(<<>>) THEN FALSE
    ELSE <<required_permission>> \in Range(Split(user_permissions[1]))

(* has_permission: user_permissions is NULL (None) or Some(string) *)
has_permission(user_permissions, required_permission) ==
    IF user_permissions = NULL \/ user_permissions = Some(<<>>) THEN FALSE
    ELSE LET perms_list == [i \in DOMAIN Split(user_permissions[1]) |->
                               Strip(Split(user_permissions[1])[i])]
         IN <<required_permission>> \in Range(perms_list)

(* the gate every administrative handler starts with *)
Denied(current_user, capability) ==
    /\ current_user.role # "superadmin"
    /\ ~has_permission(current_user.permissions, capability)

-----------------------------------------------------------------------------
(* Initial tables *)

InitUsers ==
    (1 :> [username |-> "admin", role |-> "superadmin", permissions |-> Some(<<>>)])
    @@ (2 :> [username |-> "ann", role |-> "reader", permissions |-> Some(<<>>)])
    @@ (3 :> [username |-> "bob", role |-> "reader", permissions |-> Some(<<>>)])

NoBooks == [i \in {} |-> 0]

NoLoans == [i \in {} |-> 0]

Terminals == {1, 2}

IdleProcs == [p \in Terminals |-> [pc |-> "menu", user_id |-> 0, book_id |-> 0]]

Init ==
    /\ users = InitUsers
    /\ books = NoBooks
    /\ loans = NoLoans
    /\ nextUserId = 4
    /\ nextBookId = 1
    /\ nextLoanId = 1
    /\ session = NULL
    /\ today = 0
    /\ out = Msg("none", "none")
    /\ procs = IdleProcs
    /\ faults = 0

-----------------------------------------------------------------------------
(* Session *)

login_user(u) ==
    /\ session = NULL
    /\ u \in DOMAIN users
    /\ users[u].role \in Roles
    /\ session' = Some([user_id |-> u, username |-> users[u].username,
                        role |-> users[u].role,
                        permissions |-> users[u].permissions])
    /\ UNCHANGED <<users, books, loans, nextUserId, nextBookId, nextLoanId,
                   today, out, procs, faults>>

Logout ==
    /\ session # NULL
    /\ session' = NULL
    /\ UNCHANGED <<users, books, loans, nextUserId, nextBookId, nextLoanId,
                   today, out, procs, faults>>

(* date.today() moves on between two operations *)
Tick ==
    /\ today < MaxDay
    /\ today' = today + 1
    /\ UNCHANGED <<users, books, loans, nextUserId, nextBookId, nextLoanId,
                   session, out, procs, faults>>

-----------------------------------------------------------------------------
(* Book operations *)

add_book_unchecked(current_user, title, author, quantity, ok) ==
    /\ UNCHANGED <<users, loans, nextUserId, nextLoanId, session, today, procs>>
    /\ IF Denied(current_user, "add_book")
       THEN out' = Msg("add_book", "PermissionDenied") /\ UNCHANGED <<books, nextBookId>>
       ELSE IF quantity <= 0
       THEN out' = Msg("add_book", "InvalidInput") /\ UNCHANGED <<books, nextBookId>>
       ELSE IF ok
       THEN /\ nextBookId <= MaxBooks
            /\ books' = books @@ (nextBookId :>
                   [title |-> title, author |-> author,
                    quantity |-> quantity, available_quantity |-> quantity])
            /\ nextBookId' = nextBookId + 1
            /\ out' = Msg("add_book", "success")
       ELSE out' = Msg("add_book", "Failed") /\ UNCHANGED <<books, nextBookId>>

add_book(current_user, title, author, quantity, ok) ==
    /\ UNCHANGED <<users, loans, nextUserId, nextLoanId, session, today, procs>>
    /\ IF Denied(current_user, "add_book")
       THEN out' = Msg("add_book", "PermissionDenied") /\ UNCHANGED <<books, nextBookId>>
       ELSE IF quantity <= 0
       THEN out' = Msg("add_book", "InvalidInput") /\ UNCHANGED <<books, nextBookId>>
       ELSE IF \E b \in DOMAIN books :
                   books[b].title = title /\ books[b].author = author
       THEN out' = Msg("add_book", "Conflict") /\ UNCHANGED <<books, nextBookId>>
       ELSE IF ok
       THEN /\ nextBookId <= MaxBooks
            /\ books' = books @@ (nextBookId :>
                   [title |-> title, author |-> author,
                    quantity |-> quantity, available_quantity |-> quantity])
            /\ nextBookId' = nextBookId + 1
            /\ out' = Msg("add_book", "success")
       ELSE out' = Msg("add_book", "Failed") /\ UNCHANGED <<books, nextBookId>>

new_available_quantity_reset(current_book, new_quantity) == Some(new_quantity)

new_available_quantity_unchecked(current_book, new_quantity) ==
    LET quantity_change == new_quantity - current_book.quantity
        moved == current_book.available_quantity + quantity_change
    IN  IF moved > new_quantity THEN Some(new_quantity) ELSE Some(moved)

(* update_book's recomputation: NULL when the update is refused *)
new_available_quantity(current_book, new_quantity) ==
    LET quantity_change == new_quantity - current_book.quantity
        moved == current_book.available_quantity + quantity_change
    IN  IF moved < 0 THEN NULL
        ELSE IF moved > new_quantity THEN Some(new_quantity)
        ELSE Some(moved)

(* quantity_str: kind "blank" (left blank), "int" (int() parses it to val) or
   "junk" (int() raises ValueError) *)
update_book(current_user, book_id, title, author, quantity_str, confirm, ok) ==
    /\ UNCHANGED <<users, loans, nextUserId, nextBookId, nextLoanId, session,
                   today, procs>>
    /\ IF Denied(current_user, "update_book")
       THEN out' = Msg("update_book", "PermissionDenied") /\ UNCHANGED books
       ELSE IF book_id \notin DOMAIN books
       THEN out' = Msg("update_book", "NotFound") /\ UNCHANGED books
       ELSE LET current_book == books[book_id]
                new_title == IF title = NULL THEN current_book.title ELSE title[1]
                new_author == IF author = NULL THEN current_book.author
                              ELSE author[1]
                new_quantity == IF quantity_str.kind = "int"
                                THEN quantity_str.val
                                ELSE current_book.quantity
                avail == new_available_quantity(current_book, new_quantity)
            IN  IF new_quantity < 0
                THEN out' = Msg("update_book", "InvalidInput") /\ UNCHANGED books
                ELSE IF avail = NULL
                THEN out' = Msg("update_book", "InvalidState") /\ UNCHANGED books
                ELSE IF ~confirm
                THEN out' = Msg("update_book", "cancelled") /\ UNCHANGED books
                ELSE /\ out' = Msg("update_book", "success")
                     /\ books' = IF ok
                                 THEN [books EXCEPT ![book_id] =
                                          [title |-> new_title,
                                           author |-> new_author,
                                           quantity |-> new_quantity,
                                           available_quantity |-> avail[1]]]
                                 ELSE books

delete_book(current_user, book_id, confirm, ok) ==
    /\ UNCHANGED <<users, loans, nextUserId, nextBookId, nextLoanId, session,
                   today, procs>>
    /\ IF Denied(current_user, "delete_book")
       THEN out' = Msg("delete_book", "PermissionDenied") /\ UNCHANGED books
       ELSE IF book_id \notin DOMAIN books
       THEN out' = Msg("delete_book", "NotFound") /\ UNCHANGED books
       ELSE IF books[book_id].available_quantity < books[book_id].quantity
       THEN out' = Msg("delete_book", "Conflict") /\ UNCHANGED books
       ELSE IF ~confirm
       THEN out' = Msg("delete_book", "cancelled") /\ UNCHANGED books
       ELSE /\ books' = IF ok THEN Remove(books, book_id) ELSE books
            /\ out' = Msg("delete_book", IF book_id \notin DOMAIN books'
                                          THEN "success" ELSE "Failed")

-----------------------------------------------------------------------------
(* Loan operations *)

ActiveLoanOf(lns, user_id, book_id) ==
    {l \in DOMAIN lns : /\ lns[l].user_id = user_id
                        /\ lns[l].book_id = book_id
                        /\ lns[l].return_date = NULL}

(* INSERT INTO loans (user_id, book_id, loan_date, due_date) *)
InsertLoan(lns, nid, user_id, book_id, loan_date, due_date) ==
    lns @@ (nid :> [user_id |-> user_id, book_id |-> book_id,
                    loan_date |-> loan_date, due_date |-> due_date,
                    return_date |-> NULL])

TakeCopy_forgotten(bks, book_id) == bks

(* UPDATE books SET available_quantity = available_quantity - 1
   WHERE book_id = %s AND available_quantity > 0 *)
TakeCopy(bks, book_id) ==
    IF book_id \in DOMAIN bks /\ bks[book_id].available_quantity > 0
    THEN [bks EXCEPT ![book_id].available_quantity = @ - 1]
    ELSE bks

PutCopy_forgotten(bks, book_id) == bks

(* UPDATE books SET available_quantity = available_quantity + 1
   WHERE book_id = %s *)
PutCopy(bks, book_id) ==
    IF book_id \in DOMAIN bks
    THEN [bks EXCEPT ![book_id].available_quantity = @ + 1]
    ELSE bks

(* UPDATE loans SET return_date = %s WHERE loan_id = %s *)
CloseLoan(lns, loan_id, return_date) ==
    IF loan_id \in DOMAIN lns
    THEN [lns EXCEPT ![loan_id].return_date = Some(return_date)]
    ELSE lns

Borrowed(bks, lns, nid, day, user_id, book_id, ok1, ok2) ==
    IF ok1
    THEN [books |-> IF ok2 THEN TakeCopy(bks, book_id) ELSE bks,
          loans |-> InsertLoan(lns, nid, user_id, book_id, day, day + LoanDays),
          nextLoanId |-> nid + 1,
          out |-> "success"]
    ELSE [books |-> bks, loans |-> lns, nextLoanId |-> nid, out |-> "Failed"]

borrow_book_result_nocheck(bks, lns, nid, day, user_id, book_id, ok1, ok2) ==
    LET same == [books |-> bks, loans |-> lns, nextLoanId |-> nid]
    IN  IF book_id \notin DOMAIN bks
        THEN same @@ [out |-> "NotFound"]
        ELSE IF bks[book_id].available_quantity <= 0
        THEN same @@ [out |-> "Unavailable"]
        ELSE Borrowed(bks, lns, nid, day, user_id, book_id, ok1, ok2)

borrow_book_result_conflict_first(bks, lns, nid, day, user_id, book_id, ok1, ok2) ==
    LET same == [books |-> bks, loans |-> lns, nextLoanId |-> nid]
    IN  IF book_id \notin DOMAIN bks
        THEN same @@ [out |-> "NotFound"]
        ELSE IF ActiveLoanOf(lns, user_id, book_id) # {}
        THEN same @@ [out |-> "Conflict"]
        ELSE IF bks[book_id].available_quantity <= 0
        THEN same @@ [out |-> "Unavailable"]
        ELSE Borrowed(bks, lns, nid, day, user_id, book_id, ok1, ok2)

(* borrow_book on the tables bks, lns with the next loan id nid, on day:
   the tables and the message it leaves *)
borrow_book_result(bks, lns, nid, day, user_id, book_id, ok1, ok2) ==
    LET same == [books |-> bks, loans |-> lns, nextLoanId |-> nid]
    IN  IF book_id \notin DOMAIN bks
        THEN same @@ [out |-> "NotFound"]
        ELSE IF bks[book_id].available_quantity <= 0
        THEN same @@ [out |-> "Unavailable"]
        ELSE IF ActiveLoanOf(lns, user_id, book_id) # {}
        THEN same @@ [out |-> "Conflict"]
        ELSE Borrowed(bks, lns, nid, day, user_id, book_id, ok1, ok2)

borrow_book(user_id, book_id, ok1, ok2) ==
    LET r == borrow_book_result(books, loans, nextLoanId, today,
                                user_id, book_id, ok1, ok2)
    IN  /\ r.nextLoanId <= MaxLoans + 1
        /\ books' = r.books
        /\ loans' = r.loans
        /\ nextLoanId' = r.nextLoanId
        /\ out' = Msg("borrow_book", r.out)
        /\ UNCHANGED <<users, nextUserId, nextBookId, session, today, procs>>

Returned(bks, lns, day, loan_id, ok1, ok2) ==
    LET book_id == lns[loan_id].book_id
        return_date == day
    IN  [loans |-> IF ok1 THEN CloseLoan(lns, loan_id, return_date) ELSE lns,
         books |-> IF ok2 THEN PutCopy(bks, book_id) ELSE bks,
         out |-> "success"]

return_book_result_anyuser(bks, lns, day, user_id, loan_id, ok1, ok2) ==
    IF ~(loan_id \in DOMAIN lns /\ lns[loan_id].return_date = NULL)
    THEN [books |-> bks, loans |-> lns, out |-> "NotFound"]
    ELSE Returned(bks, lns, day, loan_id, ok1, ok2)

return_book_result_anystate(bks, lns, day, user_id, loan_id, ok1, ok2) ==
    IF ~(loan_id \in DOMAIN lns /\ lns[loan_id].user_id = user_id)
    THEN [books |-> bks, loans |-> lns, out |-> "NotFound"]
    ELSE Returned(bks, lns, day, loan_id, ok1, ok2)

(* return_book on the tables bks, lns, on day *)
return_book_result(bks, lns, day, user_id, loan_id, ok1, ok2) ==
    IF ~(/\ loan_id \in DOMAIN lns
         /\ lns[loan_id].user_id = user_id
         /\ lns[loan_id].return_date = NULL)
    THEN [books |-> bks, loans |-> lns, out |-> "NotFound"]
    ELSE Returned(bks, lns, day, loan_id, ok1, ok2)

return_book(user_id, loan_id, ok1, ok2) ==
    LET r == return_book_result(books, loans, today, user_id, loan_id, ok1, ok2)
    IN  /\ books' = r.books
        /\ loans' = r.loans
        /\ out' = Msg("return_book", r.out)
        /\ UNCHANGED <<users, nextUserId, nextBookId, nextLoanId, session,
                       today, procs>>

-----------------------------------------------------------------------------
(* User administration *)

(* str.lower() on the role names a user can type *)
Lower(s) ==
    IF s = "Admin" THEN "admin" ELSE s

(* the users table keeps usernames unique: a write that would give another
   row the same username is refused by the store *)
UsernameTaken(usrs, username, except) ==
    \E u \in DOMAIN usrs \ except : usrs[u].username = username

(* register_user: TRUE and the new table when the INSERT went through *)
register_user(usrs, nid, username, role, ok) ==
    IF role \notin {"reader", "admin", "superadmin"}
    THEN [users |-> usrs, nextUserId |-> nid, registered |-> FALSE]
    ELSE IF ok /\ ~UsernameTaken(usrs, username, {})
    THEN [users |-> usrs @@ (nid :> [username |-> username, role |-> role,
                                     permissions |-> Some(<<>>)]),
          nextUserId |-> nid + 1, registered |-> TRUE]
    ELSE [users |-> usrs, nextUserId |-> nid, registered |-> FALSE]

add_user_anyrole(current_user, username, role_input, ok) ==
    /\ UNCHANGED <<books, loans, nextBookId, nextLoanId, session, today, procs>>
    /\ LET role == Lower(role_input)
       IN  IF Denied(current_user, "add_user")
           THEN out' = Msg("add_user", "PermissionDenied") /\ UNCHANGED <<users, nextUserId>>
           ELSE LET r == register_user(users, nextUserId, username, role, ok)
                IN  /\ r.nextUserId <= MaxUsers + 1
                    /\ users' = r.users
                    /\ nextUserId' = r.nextUserId
                    /\ out' = Msg("add_user", IF r.registered THEN "success"
                                                   ELSE "Failed")

add_user(current_user, username, role_input, ok) ==
    /\ UNCHANGED <<books, loans, nextBookId, nextLoanId, session, today, procs>>
    /\ LET role == Lower(role_input)
       IN  IF Denied(current_user, "add_user")
           THEN out' = Msg("add_user", "PermissionDenied") /\ UNCHANGED <<users, nextUserId>>
           ELSE IF role = "superadmin" /\ current_user.role # "superadmin"
           THEN out' = Msg("add_user", "RoleDenied") /\ UNCHANGED <<users, nextUserId>>
           ELSE IF role = "admin" /\ current_user.role # "superadmin"
           THEN out' = Msg("add_user", "RoleDenied") /\ UNCHANGED <<users, nextUserId>>
           ELSE IF role \notin {"reader", "admin"}
           THEN out' = Msg("add_user", "InvalidInput") /\ UNCHANGED <<users, nextUserId>>
           ELSE LET r == register_user(users, nextUserId, username, role, ok)
                IN  /\ r.nextUserId <= MaxUsers + 1
                    /\ users' = r.users
                    /\ nextUserId' = r.nextUserId
                    /\ out' = Msg("add_user", IF r.registered THEN "success"
                                                   ELSE "Failed")

Protected_unchecked(target_role, actor_role) == FALSE

(* target_user.get("role") in ["superadmin", "admin"]
   and current_user["role"] != "superadmin" *)
Protected(target_role, actor_role) ==
    target_role \in {"superadmin", "admin"} /\ actor_role # "superadmin"

cleared_permissions_kept(target_user, new_role) == target_user.permissions

(* new_permissions: cleared when the role changes to reader *)
cleared_permissions(target_user, new_role) ==
    IF new_role = "reader" /\ target_user.role # "reader"
    THEN Some(<<>>) ELSE target_user.permissions

(* username and role_input are NULL when the prompt is left blank *)
update_user(current_user, user_id, username_input, role_input, confirm, ok) ==
    /\ UNCHANGED <<books, loans, nextUserId, nextBookId, nextLoanId, session,
                   today, procs>>
    /\ IF Denied(current_user, "update_user")
       THEN out' = Msg("update_user", "PermissionDenied") /\ UNCHANGED users
       ELSE IF user_id \notin DOMAIN users
       THEN out' = Msg("update_user", "NotFound") /\ UNCHANGED users
       ELSE LET target_user == [user_id |-> user_id,
                                username |-> users[user_id].username,
                                role |-> users[user_id].role,
                                permissions |-> users[user_id].permissions]
                username == IF username_input = NULL
                            THEN current_user.username ELSE username_input[1]
                asks_role == current_user.role = "superadmin" /\ role_input # NULL
                new_role == IF asks_role THEN Lower(role_input[1])
                            ELSE target_user.role
                new_permissions == cleared_permissions(target_user, new_role)
            IN  IF Protected(target_user.role, current_user.role)
                THEN out' = Msg("update_user", "RoleDenied") /\ UNCHANGED users
                ELSE IF /\ Get(target_user, "user_id") = Get(current_user, "user_id")
                        /\ current_user.role # "superadmin"
                THEN out' = Msg("update_user", "RoleDenied") /\ UNCHANGED users
                ELSE IF asks_role /\ new_role \notin {"reader", "admin"}
                THEN out' = Msg("update_user", "InvalidInput") /\ UNCHANGED users
                ELSE IF current_user.role # "superadmin" /\ target_user.role # "reader"
                THEN out' = Msg("update_user", "RoleDenied") /\ UNCHANGED users
                ELSE IF ~confirm
                THEN out' = Msg("update_user", "cancelled") /\ UNCHANGED users
                ELSE /\ out' = Msg("update_user", "success")
                     /\ users' = IF ok /\ ~UsernameTaken(users, username, {user_id})
                                 THEN [users EXCEPT ![user_id] =
                                          [username |-> username,
                                           role |-> new_role,
                                           permissions |-> new_permissions]]
                                 ELSE users

HasActiveLoan_unchecked(lns, user_id) == FALSE

(* SELECT 1 FROM loans WHERE user_id = %s AND return_date IS NULL *)
HasActiveLoan(lns, user_id) ==
    \E l \in DOMAIN lns : /\ lns[l].user_id = user_id
                          /\ lns[l].return_date = NULL

delete_user(current_user, user_id, confirm, ok) ==
    /\ UNCHANGED <<books, loans, nextUserId, nextBookId, nextLoanId, session,
                   today, procs>>
    /\ IF Denied(current_user, "delete_user")
       THEN out' = Msg("delete_user", "PermissionDenied") /\ UNCHANGED users
       ELSE IF user_id \notin DOMAIN users
       THEN out' = Msg("delete_user", "NotFound") /\ UNCHANGED users
       ELSE LET target_user == [username |-> users[user_id].username,
                                role |-> users[user_id].role]
            IN  IF Protected(target_user.role, current_user.role)
                THEN out' = Msg("delete_user", "RoleDenied") /\ UNCHANGED users
                ELSE IF Get(target_user, "user_id") = Get(current_user, "user_id")
                THEN out' = Msg("delete_user", "Conflict") /\ UNCHANGED users
                ELSE IF HasActiveLoan(loans, user_id)
                THEN out' = Msg("delete_user", "Conflict") /\ UNCHANGED users
                ELSE IF ~confirm
                THEN out' = Msg("delete_user", "cancelled") /\ UNCHANGED users
                ELSE /\ users' = IF ok THEN Remove(users, user_id) ELSE users
                     /\ out' = Msg("delete_user", IF user_id \notin DOMAIN users'
                                                     THEN "success" ELSE "Failed")

-----------------------------------------------------------------------------
(* Roles and permissions (superadmin only) *)

RECURSIVE Join(_)
(* ",".join(pieces) *)
Join(pieces) ==
    IF pieces = <<>> THEN <<>>
    ELSE IF Len(pieces) = 1 THEN pieces[1]
    ELSE pieces[1] \o <<",">> \o Join(Tail(pieces))

(* [p.strip() for p in perms_input.split(",") if p.strip()] *)
parse_permissions(perms_input) ==
    LET pieces == Split(perms_input)
        stripped == [i \in DOMAIN pieces |-> Strip(pieces[i])]
    IN  SelectSeq(stripped, LAMBDA p : p # <<>>)

invalid_permissions_none(new_perms) == <<>>

(* [p for p in new_perms if p not in all_perms] *)
invalid_permissions(new_perms) ==
    SelectSeq(new_perms, LAMBDA p : ~(Len(p) = 1 /\ p[1] \in AllPerms))

Invalid(op, invalid) == Msg(op, "InvalidInput") @@ [invalid |-> invalid]

assign_role_keeps(current_user, user_id, role_input, confirm, ok) ==
    /\ UNCHANGED <<books, loans, nextUserId, nextBookId, nextLoanId, session,
                   today, procs>>
    /\ IF current_user.role # "superadmin"
       THEN out' = Msg("assign_role", "PermissionDenied") /\ UNCHANGED users
       ELSE IF user_id \notin DOMAIN users
       THEN out' = Msg("assign_role", "NotFound") /\ UNCHANGED users
       ELSE IF users[user_id].role = "superadmin"
       THEN out' = Msg("assign_role", "RoleDenied") /\ UNCHANGED users
       ELSE LET new_role == Lower(role_input)
            IN  IF new_role \notin {"reader", "admin"}
                THEN out' = Msg("assign_role", "InvalidInput") /\ UNCHANGED users
                ELSE IF ~confirm
                THEN out' = Msg("assign_role", "cancelled") /\ UNCHANGED users
                ELSE /\ out' = Msg("assign_role", "success")
                     /\ users' = IF ok
                                 THEN [users EXCEPT ![user_id].role = new_role]
                                 ELSE users

assign_role(current_user, user_id, role_input, confirm, ok) ==
    /\ UNCHANGED <<books, loans, nextUserId, nextBookId, nextLoanId, session,
                   today, procs>>
    /\ IF current_user.role # "superadmin"
       THEN out' = Msg("assign_role", "PermissionDenied") /\ UNCHANGED users
       ELSE IF user_id \notin DOMAIN users
       THEN out' = Msg("assign_role", "NotFound") /\ UNCHANGED users
       ELSE IF users[user_id].role = "superadmin"
       THEN out' = Msg("assign_role", "RoleDenied") /\ UNCHANGED users
       ELSE LET new_role == Lower(role_input)
            IN  IF new_role \notin {"reader", "admin"}
                THEN out' = Msg("assign_role", "InvalidInput") /\ UNCHANGED users
                ELSE IF ~confirm
                THEN out' = Msg("assign_role", "cancelled") /\ UNCHANGED users
                ELSE /\ out' = Msg("assign_role", "success")
                     /\ users' = IF ok
                                 THEN [users EXCEPT
                                          ![user_id].role = new_role,
                                          ![user_id].permissions = Some(<<>>)]
                                 ELSE users

assign_permissions_anytarget(current_user, user_id, perms_input, confirm, ok) ==
    /\ UNCHANGED <<books, loans, nextUserId, nextBookId, nextLoanId, session,
                   today, procs>>
    /\ IF current_user.role # "superadmin"
       THEN out' = Msg("assign_permissions", "PermissionDenied") /\ UNCHANGED users
       ELSE IF user_id \notin DOMAIN users
       THEN out' = Msg("assign_permissions", "NotFound") /\ UNCHANGED users
       ELSE LET new_perms == parse_permissions(perms_input)
                invalid == invalid_permissions(new_perms)
                perms_str == Join(new_perms)
            IN  IF invalid # <<>>
                THEN out' = Invalid("assign_permissions", invalid) /\ UNCHANGED users
                ELSE IF ~confirm
                THEN out' = Msg("assign_permissions", "cancelled") /\ UNCHANGED users
                ELSE /\ out' = Msg("assign_permissions", "success")
                     /\ users' = IF ok
                                 THEN [users EXCEPT
                                          ![user_id].permissions = Some(perms_str)]
                                 ELSE users

assign_permissions(current_user, user_id, perms_input, confirm, ok) ==
    /\ UNCHANGED <<books, loans, nextUserId, nextBookId, nextLoanId, session,
                   today, procs>>
    /\ IF current_user.role # "superadmin"
       THEN out' = Msg("assign_permissions", "PermissionDenied") /\ UNCHANGED users
       ELSE IF user_id \notin DOMAIN users
       THEN out' = Msg("assign_permissions", "NotFound") /\ UNCHANGED users
       ELSE IF users[user_id].role # "admin"
       THEN out' = Msg("assign_permissions", "RoleDenied") /\ UNCHANGED users
       ELSE LET new_perms == parse_permissions(perms_input)
                invalid == invalid_permissions(new_perms)
                perms_str == Join(new_perms)
            IN  IF invalid # <<>>
                THEN out' = Invalid("assign_permissions", invalid) /\ UNCHANGED users
                ELSE IF ~confirm
                THEN out' = Msg("assign_permissions", "cancelled") /\ UNCHANGED users
                ELSE /\ out' = Msg("assign_permissions", "success")
                     /\ users' = IF ok
                                 THEN [users EXCEPT
                                          ![user_id].permissions = Some(perms_str)]
                                 ELSE users

assign_role_permissions(current_user, user_id, role_input, perms_input, confirm, ok) ==
    /\ UNCHANGED <<books, loans, nextUserId, nextBookId, nextLoanId, session,
                   today, procs>>
    /\ IF current_user.role # "superadmin"
       THEN out' = Msg("assign_role_permissions", "PermissionDenied")
            /\ UNCHANGED users
       ELSE IF user_id \notin DOMAIN users
       THEN out' = Msg("assign_role_permissions", "NotFound") /\ UNCHANGED users
       ELSE IF users[user_id].role = "superadmin"
       THEN out' = Msg("assign_role_permissions", "RoleDenied") /\ UNCHANGED users
       ELSE LET new_role == Lower(role_input)
                perms == IF new_role = "admin" THEN parse_permissions(perms_input)
                         ELSE <<>>
                invalid == invalid_permissions(perms)
                new_perms == Join(perms)
            IN  IF new_role \notin {"reader", "admin"}
                THEN out' = Msg("assign_role_permissions", "InvalidInput")
                     /\ UNCHANGED users
                ELSE IF invalid # <<>>
                THEN out' = Invalid("assign_role_permissions", invalid)
                     /\ UNCHANGED users
                ELSE IF ~confirm
                THEN out' = Msg("assign_role_permissions", "cancelled")
                     /\ UNCHANGED users
                ELSE /\ out' = Msg("assign_role_permissions", "success")
                     /\ users' = IF ok
                                 THEN [users EXCEPT
                                          ![user_id].role = new_role,
                                          ![user_id].permissions = Some(new_perms)]
                                 ELSE users

-----------------------------------------------------------------------------
(* What the prompts can be answered with *)

BookIds == 1..MaxBooks

LoanIds == 1..MaxLoans

UserIds == 1..MaxUsers

Titles == {"Dune", "Emma"}

Authors == {"Herrick"}

Blank == [kind |-> "blank", val |-> 0]

Junk == [kind |-> "junk", val |-> 0]

QuantityStrings ==
    {Blank, Junk} \cup {[kind |-> "int", val |-> n] : n \in -1..MaxQty}

Optional(S) == {NULL} \cup {Some(x) : x \in S}

NewUsernames == {"ann", "cy"}

RoleInputs == {"reader", "Admin", "superadmin", "guest"}

-----------------------------------------------------------------------------
(* The menus of app.py.  W is the set of outcomes of a commit-mode query   *)
(* (TRUE: committed, FALSE: execute_query returned None), Ids the book ids *)
(* typed at the prompt.  faults counts the queries made to fail so far.    *)

Faults(oks) == Cardinality({i \in DOMAIN oks : ~oks[i]})

Fail(oks) ==
    /\ faults + Faults(oks) <= MaxFaults
    /\ faults' = faults + Faults(oks)

Reader == session # NULL /\ session[1].role = "reader"

Staff == session # NULL /\ session[1].role \in {"admin", "superadmin"}

ReaderBorrow(W, Ids) ==
    /\ Reader
    /\ \E book_id \in Ids, ok1 \in W, ok2 \in W :
           Fail(<<ok1, ok2>>) /\ borrow_book(session[1].user_id, book_id, ok1, ok2)

ReaderReturn(W) ==
    /\ Reader
    /\ \E loan_id \in LoanIds, ok1 \in W, ok2 \in W :
           Fail(<<ok1, ok2>>) /\ return_book(session[1].user_id, loan_id, ok1, ok2)

StaffAddBook(W) ==
    /\ Staff
    /\ \E title \in Titles, author \in Authors, quantity \in 0..MaxQty, ok \in W :
           Fail(<<ok>>) /\ add_book(session[1], title, author, quantity, ok)

StaffUpdateBook(W, Ids) ==
    /\ Staff
    /\ \E book_id \in Ids, quantity_str \in QuantityStrings,
          confirm \in BOOLEAN, ok \in W :
           Fail(<<ok>>) /\ update_book(session[1], book_id, NULL, NULL, quantity_str,
                                        confirm, ok)

(* update_book with the title and author prompts answered or left blank *)
StaffRetitleBook(W, Ids) ==
    /\ Staff
    /\ \E book_id \in Ids, title \in Optional(Titles), author \in Optional(Authors),
          confirm \in BOOLEAN, ok \in W :
           Fail(<<ok>>) /\ update_book(session[1], book_id, title, author, Blank,
                                        confirm, ok)

StaffDeleteBook(W, Ids) ==
    /\ Staff
    /\ \E book_id \in Ids, confirm \in BOOLEAN, ok \in W :
           Fail(<<ok>>) /\ delete_book(session[1], book_id, confirm, ok)

StaffAddUser(W) ==
    /\ Staff
    /\ \E username \in NewUsernames, role_input \in RoleInputs, ok \in W :
           Fail(<<ok>>) /\ add_user(session[1], username, role_input, ok)

(* the role prompt is shown to a superadmin only *)
RolePrompt(current_user) ==
    IF current_user.role = "superadmin" THEN Optional(RoleInputs) ELSE {NULL}

StaffUpdateUser(W) ==
    /\ Staff
    /\ \E user_id \in UserIds, username \in Optional(NewUsernames),
          role_input \in RolePrompt(session[1]), confirm \in BOOLEAN, ok \in W :
           Fail(<<ok>>) /\ update_user(session[1], user_id, username, role_input, confirm, ok)

StaffDeleteUser(W) ==
    /\ Staff
    /\ \E user_id \in UserIds, confirm \in BOOLEAN, ok \in W :
           Fail(<<ok>>) /\ delete_user(session[1], user_id, confirm, ok)

LoginAny == \E u \in UserIds : login_user(u)

(* permission lists typed at the prompt: blank, known tokens with and without
   blanks around them, empty entries, unknown tokens alone and among known ones *)
PermsInputs ==
    { <<>>,
      <<"add_user">>,
      <<" ", "view_reports", ",", "add_user">>,
      <<",", "delete_user", ",">>,
      <<"bogus">>,
      <<"add_user", ",", "bogus", ",", " ", "root">>,
      <<"add_user", "root">> }

AssignRole(W) ==
    /\ session # NULL
    /\ \E user_id \in UserIds, role_input \in RoleInputs,
          confirm \in BOOLEAN, ok \in W :
           Fail(<<ok>>) /\ assign_role(session[1], user_id, role_input, confirm, ok)

AssignPermissions(W) ==
    /\ session # NULL
    /\ \E user_id \in UserIds, perms_input \in PermsInputs,
          confirm \in BOOLEAN, ok \in W :
           Fail(<<ok>>) /\ assign_permissions(session[1], user_id, perms_input,
                                               confirm, ok)

AssignRolePermissions(W) ==
    /\ session # NULL
    /\ \E user_id \in UserIds, role_input \in RoleInputs,
          perms_input \in PermsInputs, confirm \in BOOLEAN, ok \in W :
           Fail(<<ok>>) /\ assign_role_permissions(session[1], user_id, role_input,
                                                    perms_input, confirm, ok)

-----------------------------------------------------------------------------
(* Spec: one terminal, the catalog and the loans from an empty library,    *)
(* every write commits                                                     *)

Next ==
    \/ LoginAny
    \/ Logout
    \/ ReaderBorrow({TRUE}, BookIds)
    \/ ReaderReturn({TRUE})
    \/ StaffAddBook({TRUE})
    \/ StaffUpdateBook({TRUE}, BookIds)
    \/ StaffDeleteBook({TRUE}, BookIds)

Spec == Init /\ [][Next]_vars

-----------------------------------------------------------------------------
(* SpecLoans: one terminal, a stocked library, the days go by, every write *)
(* commits                                                                 *)

StockedBooks ==
    (1 :> [title |-> "Dune", author |-> "Herrick",
           quantity |-> 2, available_quantity |-> 2])
    @@ (2 :> [title |-> "Emma", author |-> "Herrick",
              quantity |-> 1, available_quantity |-> 1])

(* the ids of the stocked books and one id no book has *)
StockedIds == {1, 2, 3}

InitLoans ==
    /\ users = InitUsers
    /\ books = StockedBooks
    /\ loans = NoLoans
    /\ nextUserId = 4
    /\ nextBookId = 3
    /\ nextLoanId = 1
    /\ session = NULL
    /\ today = 0
    /\ out = Msg("none", "none")
    /\ procs = IdleProcs
    /\ faults = 0

NextLoans ==
    \/ LoginAny
    \/ Logout
    \/ Tick
    \/ ReaderBorrow({TRUE}, StockedIds)
    \/ ReaderReturn({TRUE})

SpecLoans == InitLoans /\ [][NextLoans]_vars

(* SpecFail: the same on a single day, and any commit-mode query may fail *)

NextFail ==
    \/ LoginAny
    \/ Logout
    \/ ReaderBorrow(BOOLEAN, StockedIds)
    \/ ReaderReturn(BOOLEAN)

SpecFail == InitLoans /\ [][NextFail]_vars

-----------------------------------------------------------------------------
(* SpecAdmin: one terminal, the user administration on a stocked library,  *)
(* every write commits                                                     *)

NextAdmin ==
    \/ LoginAny
    \/ Logout
    \/ StaffAddUser({TRUE})
    \/ StaffUpdateUser({TRUE})
    \/ StaffDeleteUser({TRUE})

AdminUsers ==
    (1 :> [username |-> "admin", role |-> "superadmin", permissions |-> Some(<<>>)])
    @@ (2 :> [username |-> "ann", role |-> "reader", permissions |-> Some(<<>>)])
    @@ (3 :> [username |-> "lib", role |-> "admin",
              permissions |-> Some(<<"add_user", ",", "update_user", ",",
                                     "delete_user">>)])

InitAdmin ==
    /\ users = AdminUsers
    /\ books = StockedBooks
    /\ loans = NoLoans
    /\ nextUserId = 4
    /\ nextBookId = 3
    /\ nextLoanId = 1
    /\ session = NULL
    /\ today = 0
    /\ out = Msg("none", "none")
    /\ procs = IdleProcs
    /\ faults = 0

SpecAdmin == InitAdmin /\ [][NextAdmin]_vars

-----------------------------------------------------------------------------
(* SpecCatalog: one terminal, the catalog and the loan desk on a library   *)
(* with one book, one of its two copies on loan, every write commits       *)

LentBooks ==
    1 :> [title |-> "Dune", author |-> "Herrick",
          quantity |-> 2, available_quantity |-> 1]

LentLoans ==
    1 :> [user_id |-> 2, book_id |-> 1, loan_date |-> 0,
          due_date |-> LoanDays, return_date |-> NULL]

InitCatalog ==
    /\ users = InitUsers
    /\ books = LentBooks
    /\ loans = LentLoans
    /\ nextUserId = 4
    /\ nextBookId = 2
    /\ nextLoanId = 2
    /\ session = NULL
    /\ today = 0
    /\ out = Msg("none", "none")
    /\ procs = IdleProcs
    /\ faults = 0

NextCatalog ==
    \/ LoginAny
    \/ Logout
    \/ ReaderBorrow({TRUE}, BookIds)
    \/ ReaderReturn({TRUE})
    \/ StaffAddBook({TRUE})
    \/ StaffUpdateBook({TRUE}, BookIds)
    \/ StaffDeleteBook({TRUE}, BookIds)

SpecCatalog == InitCatalog /\ [][NextCatalog]_vars

-----------------------------------------------------------------------------
(* SpecAssign: one terminal, the three role and permission handlers called *)
(* by any logged-in user, every write commits                              *)

NextAssign ==
    \/ LoginAny
    \/ Logout
    \/ AssignRole({TRUE})
    \/ AssignPermissions({TRUE})
    \/ AssignRolePermissions({TRUE})

SpecAssign == InitAdmin /\ [][NextAssign]_vars

-----------------------------------------------------------------------------
(* SpecDelete: one terminal, the loan desk and the two deletions on a      *)
(* stocked library whose staff includes an admin holding delete_book and   *)
(* delete_user, every write commits                                        *)

StaffUsers ==
    (1 :> [username |-> "admin", role |-> "superadmin", permissions |-> Some(<<>>)])
    @@ (2 :> [username |-> "ann", role |-> "reader", permissions |-> Some(<<>>)])
    @@ (3 :> [username |-> "bob", role |-> "reader", permissions |-> Some(<<>>)])
    @@ (4 :> [username |-> "lib", role |-> "admin",
              permissions |-> Some(<<"delete_book", ",", "delete_user">>)])

InitDelete ==
    /\ users = StaffUsers
    /\ books = StockedBooks
    /\ loans = NoLoans
    /\ nextUserId = 5
    /\ nextBookId = 3
    /\ nextLoanId = 1
    /\ session = NULL
    /\ today = 0
    /\ out = Msg("none", "none")
    /\ procs = IdleProcs
    /\ faults = 0

NextDelete ==
    \/ LoginAny
    \/ Logout
    \/ ReaderBorrow({TRUE}, StockedIds)
    \/ ReaderReturn({TRUE})
    \/ StaffDeleteBook({TRUE}, StockedIds)
    \/ StaffDeleteUser({TRUE})

SpecDelete == InitDelete /\ [][NextDelete]_vars

-----------------------------------------------------------------------------
(* SpecGate: the six gated handlers called with any session descriptor     *)

PermSymbols == {"add_book", "update_book", "delete_book",
                "add_user", "update_user", "delete_user", ",", " "}

RECURSIVE StringsUpTo(_)
StringsUpTo(n) ==
    IF n = 0 THEN {<<>>}
    ELSE LET shorter == StringsUpTo(n - 1)
         IN  shorter \cup {Append(t, c) : t \in shorter, c \in PermSymbols}

PermissionInputs == {NULL} \cup {Some(t) : t \in StringsUpTo(MaxPermLen)}

SessionInputs ==
    {[user_id |-> 2, username |-> "ann", role |-> r, permissions |-> p] :
        r \in Roles, p \in PermissionInputs}

InitGate ==
    /\ users = InitUsers
    /\ books = NoBooks
    /\ loans = NoLoans
    /\ nextUserId = 4
    /\ nextBookId = 1
    /\ nextLoanId = 1
    /\ session \in {Some(d) : d \in SessionInputs}
    /\ today = 0
    /\ out = Msg("none", "none")
    /\ procs = IdleProcs
    /\ faults = 0

GateAddBook ==
    add_book(session[1], "Dune", "Herrick", 1, TRUE) /\ UNCHANGED faults

GateUpdateBook ==
    /\ update_book(session[1], 1, Some("Emma"), NULL,
                   [kind |-> "int", val |-> 0], TRUE, TRUE)
    /\ UNCHANGED faults

GateDeleteBook == delete_book(session[1], 1, TRUE, TRUE) /\ UNCHANGED faults

GateAddUser == add_user(session[1], "cy", "reader", TRUE) /\ UNCHANGED faults

GateUpdateUser ==
    /\ update_user(session[1], 3, Some("zed"), NULL, TRUE, TRUE)
    /\ UNCHANGED faults

GateDeleteUser == delete_user(session[1], 3, TRUE, TRUE) /\ UNCHANGED faults

NextGate ==
    \/ GateAddBook
    \/ GateUpdateBook
    \/ GateDeleteBook
    \/ GateAddUser
    \/ GateUpdateUser
    \/ GateDeleteUser

SpecGate == InitGate /\ [][NextGate]_vars

-----------------------------------------------------------------------------
(* SpecConc: two terminals, each with a reader logged in, run borrow_book  *)
(* query by query; every query succeeds                                    *)

ReaderIds == {u \in DOMAIN InitUsers : InitUsers[u].role = "reader"}

InitConc ==
    /\ users = InitUsers
    /\ books = StockedBooks
    /\ loans = NoLoans
    /\ nextUserId = 4
    /\ nextBookId = 3
    /\ nextLoanId = 1
    /\ session = NULL
    /\ today = 0
    /\ out = Msg("none", "none")
    /\ procs \in [Terminals -> {[pc |-> "menu", user_id |-> u, book_id |-> 0] :
                                  u \in ReaderIds}]
    /\ faults = 0

Goto(p, pc) == procs' = [procs EXCEPT ![p].pc = pc]

(* the prompt and SELECT available_quantity FROM books *)
BorrowSelectBook(p, book_id) ==
    /\ procs[p].pc = "menu"
    /\ IF book_id \notin DOMAIN books
       THEN /\ out' = Msg("borrow_book", "NotFound")
            /\ procs' = [procs EXCEPT ![p].book_id = book_id]
       ELSE IF books[book_id].available_quantity <= 0
       THEN /\ out' = Msg("borrow_book", "Unavailable")
            /\ procs' = [procs EXCEPT ![p].book_id = book_id]
       ELSE /\ out' = out
            /\ procs' = [procs EXCEPT ![p].book_id = book_id,
                                      ![p].pc = "select_loan"]
    /\ UNCHANGED <<users, books, loans, nextUserId, nextBookId, nextLoanId,
                   session, today, faults>>

(* SELECT loan_id FROM loans ... AND return_date IS NULL *)
BorrowSelectLoan(p) ==
    /\ procs[p].pc = "select_loan"
    /\ IF ActiveLoanOf(loans, procs[p].user_id, procs[p].book_id) # {}
       THEN out' = Msg("borrow_book", "Conflict") /\ Goto(p, "menu")
       ELSE out' = out /\ Goto(p, "insert_loan")
    /\ UNCHANGED <<users, books, loans, nextUserId, nextBookId, nextLoanId,
                   session, today, faults>>

(* INSERT INTO loans *)
BorrowInsertLoan(p) ==
    /\ procs[p].pc = "insert_loan"
    /\ nextLoanId <= MaxLoans
    /\ loans' = InsertLoan(loans, nextLoanId, procs[p].user_id,
                           procs[p].book_id, today, today + LoanDays)
    /\ nextLoanId' = nextLoanId + 1
    /\ Goto(p, "update_book")
    /\ UNCHANGED <<users, books, nextUserId, nextBookId, session, today, out,
                   faults>>

(* UPDATE books SET available_quantity = available_quantity - 1 *)
BorrowUpdateBook(p) ==
    /\ procs[p].pc = "update_book"
    /\ books' = TakeCopy(books, procs[p].book_id)
    /\ out' = Msg("borrow_book", "success")
    /\ Goto(p, "menu")
    /\ UNCHANGED <<users, loans, nextUserId, nextBookId, nextLoanId, session,
                   today, faults>>

NextConc ==
    \E p \in Terminals :
        \/ \E book_id \in StockedIds : BorrowSelectBook(p, book_id)
        \/ BorrowSelectLoan(p)
        \/ BorrowInsertLoan(p)
        \/ BorrowUpdateBook(p)

SpecConc == InitConc /\ [][NextConc]_vars

-----------------------------------------------------------------------------
(* SpecTitles: the catalog handlers with titles and authors typed at the   *)
(* prompts of update_book, every write committed                           *)

NextTitles ==
    \/ LoginAny
    \/ Logout
    \/ StaffAddBook({TRUE})
    \/ StaffRetitleBook({TRUE}, BookIds)
    \/ StaffDeleteBook({TRUE}, BookIds)

SpecTitles == Init /\ [][NextTitles]_vars

-----------------------------------------------------------------------------
(* SpecRoles: every handler that writes a role or a permission list, every *)
(* write committed                                                         *)

(* the permission lists typed in this specification *)
RolesPerms ==
    {<<>>, <<"add_user">>, <<" ", "view_reports", ",", "add_user">>, <<"bogus">>}

RolesAddUser ==
    /\ Staff
    /\ \E role_input \in RoleInputs :
           Fail(<<TRUE>>) /\ add_user(session[1], "cy", role_input, TRUE)

(* update_user with the username the target already has typed again *)
RolesUpdateUser ==
    /\ Staff
    /\ \E user_id \in UserIds, role_input \in RolePrompt(session[1]) :
           /\ Fail(<<TRUE>>)
           /\ update_user(session[1], user_id,
                          IF user_id \in DOMAIN users
                          THEN Some(users[user_id].username) ELSE NULL,
                          role_input, TRUE, TRUE)

RolesAssignRole ==
    /\ session # NULL
    /\ \E user_id \in UserIds, role_input \in RoleInputs :
           Fail(<<TRUE>>) /\ assign_role(session[1], user_id, role_input, TRUE, TRUE)

RolesAssignPermissions ==
    /\ session # NULL
    /\ \E user_id \in UserIds, perms_input \in RolesPerms :
           Fail(<<TRUE>>) /\ assign_permissions(session[1], user_id, perms_input,
                                                 TRUE, TRUE)

RolesAssignRolePermissions ==
    /\ session # NULL
    /\ \E user_id \in UserIds, role_input \in RoleInputs,
          perms_input \in RolesPerms :
           Fail(<<TRUE>>) /\ assign_role_permissions(session[1], user_id, role_input,
                                                      perms_input, TRUE, TRUE)

NextRoles ==
    \/ LoginAny
    \/ Logout
    \/ RolesAddUser
    \/ RolesUpdateUser
    \/ RolesAssignRole
    \/ RolesAssignPermissions
    \/ RolesAssignRolePermissions

SpecRoles == InitAdmin /\ [][NextRoles]_vars

-----------------------------------------------------------------------------
(* SpecBoot: the main loop from an empty users table, with the offer made  *)
(* after a failed login to create the initial account                      *)

(* SELECT 1 FROM users WHERE username = 'admin' *)
admin_exists(usrs) == \E u \in DOMAIN usrs : usrs[u].username = "admin"

(* create_initial_admin: registers 'admin' with role superadmin unless a
   user of that name exists *)
create_initial_admin(usrs, nid, ok) ==
    IF admin_exists(usrs)
    THEN [users |-> usrs, nextUserId |-> nid, registered |-> FALSE]
    ELSE register_user(usrs, nid, "admin", "superadmin", ok)

(* main: login_user returned None; create is the answer to "Create it now?" *)
FailedLogin(W) ==
    /\ session = NULL
    /\ UNCHANGED <<books, loans, nextBookId, nextLoanId, session, today, procs>>
    /\ \E create \in BOOLEAN, ok \in W :
           /\ Fail(<<ok>>)
           /\ IF admin_exists(users)
              THEN /\ out' = Msg("login_user", "InvalidCredentials")
                   /\ UNCHANGED <<users, nextUserId>>
              ELSE IF ~create
              THEN /\ out' = Msg("login_user", "NoAdmin")
                   /\ UNCHANGED <<users, nextUserId>>
              ELSE LET r == create_initial_admin(users, nextUserId, ok)
                   IN  /\ r.nextUserId <= MaxUsers + 1
                       /\ users' = r.users
                       /\ nextUserId' = r.nextUserId
                       /\ out' = Msg("create_initial_admin",
                                     IF r.registered THEN "success" ELSE "Failed")

InitBoot ==
    /\ users = <<>>
    /\ books = StockedBooks
    /\ loans = NoLoans
    /\ nextUserId = 1
    /\ nextBookId = 3
    /\ nextLoanId = 1
    /\ session = NULL
    /\ today = 0
    /\ out = Msg("none", "none")
    /\ procs = IdleProcs
    /\ faults = 0

NextBoot ==
    \/ FailedLogin({TRUE})
    \/ LoginAny
    \/ Logout
    \/ StaffAddUser({TRUE})
    \/ StaffUpdateUser({TRUE})
    \/ StaffDeleteUser({TRUE})

SpecBoot == InitBoot /\ [][NextBoot]_vars

-----------------------------------------------------------------------------
(* SpecQuery: execute_query statement by statement on two terminals.       *)
(* procs[p] holds the call's flags and locals: connection is "None" (no    *)
(* connection made), "open" or "closed"; txn is what the server holds for  *)
(* the connection: "none", "open" (executed, not committed), "committed",  *)
(* "rolled_back", or "discarded" (closed while open); result is "None" or  *)
(* "value"; raised tells that pymysql.Error was raised in the body;        *)
(* rollback is "no" (not called), "done" or "failed"                       *)

IdleQuery ==
    [pc |-> "idle", commit |-> FALSE, fetch |-> FALSE, connection |-> "None",
     txn |-> "none", result |-> "None", raised |-> FALSE, rollback |-> "no"]

InitQuery ==
    /\ users = InitUsers
    /\ books = StockedBooks
    /\ loans = NoLoans
    /\ nextUserId = 4
    /\ nextBookId = 3
    /\ nextLoanId = 1
    /\ session = NULL
    /\ today = 0
    /\ out = Msg("none", "none")
    /\ procs = [p \in Terminals |-> IdleQuery]
    /\ faults = 0

QueryFrame ==
    UNCHANGED <<users, books, loans, nextUserId, nextBookId, nextLoanId,
                session, today, out, faults>>

(* execute_query(query, params, fetch_one/fetch_all, commit) is called *)
QueryStart(p, commit, fetch) ==
    /\ procs[p].pc = "idle"
    /\ procs' = [procs EXCEPT ![p] =
                    [IdleQuery EXCEPT !.pc = "connect", !.commit = commit,
                                      !.fetch = fetch]]
    /\ QueryFrame

(* get_db_connection: pymysql.connect, then yield connection or yield None *)
Connect(p, ok) ==
    /\ procs[p].pc = "connect"
    /\ procs' = [procs EXCEPT
                    ![p].connection = IF ok THEN "open" ELSE "None",
                    ![p].pc = IF ok THEN "execute" ELSE "no_connection"]
    /\ QueryFrame

(* if connection is None: return None *)
NoConnection(p) ==
    /\ procs[p].pc = "no_connection"
    /\ procs' = [procs EXCEPT ![p].result = "None", ![p].pc = "finally"]
    /\ QueryFrame

(* cursor.execute(query, params) *)
Execute(p, ok) ==
    /\ procs[p].pc = "execute"
    /\ procs' = IF ok
                THEN [procs EXCEPT
                         ![p].txn = "open",
                         ![p].pc = IF procs[p].commit THEN "commit"
                                   ELSE IF procs[p].fetch THEN "fetch"
                                   ELSE "finally"]
                ELSE [procs EXCEPT ![p].raised = TRUE, ![p].pc = "except"]
    /\ QueryFrame

(* connection.commit(); result = cursor.lastrowid *)
Commit(p, ok) ==
    /\ procs[p].pc = "commit"
    /\ procs' = IF ok
                THEN [procs EXCEPT ![p].txn = "committed", ![p].result = "value",
                                   ![p].pc = "finally"]
                ELSE [procs EXCEPT ![p].raised = TRUE, ![p].pc = "except"]
    /\ QueryFrame

(* result = cursor.fetchone() / cursor.fetchall() *)
Fetch(p, ok) ==
    /\ procs[p].pc = "fetch"
    /\ procs' = IF ok
                THEN [procs EXCEPT ![p].result = "value", ![p].pc = "finally"]
                ELSE [procs EXCEPT ![p].raised = TRUE, ![p].pc = "except"]
    /\ QueryFrame

(* except pymysql.Error: rollback if commit, else return None *)
Except(p) ==
    /\ procs[p].pc = "except"
    /\ procs' = IF procs[p].commit
                THEN [procs EXCEPT ![p].pc = "rollback"]
                ELSE [procs EXCEPT ![p].result = "None", ![p].pc = "finally"]
    /\ QueryFrame

Rollback_skipped(p, ok) ==
    /\ procs[p].pc = "rollback"
    /\ procs' = [procs EXCEPT ![p].result = "None", ![p].pc = "finally"]
    /\ QueryFrame

(* connection.rollback(), its own pymysql.Error swallowed; return None *)
Rollback(p, ok) ==
    /\ procs[p].pc = "rollback"
    /\ procs' = [procs EXCEPT
                    ![p].txn = IF ok /\ procs[p].txn = "open"
                               THEN "rolled_back" ELSE procs[p].txn,
                    ![p].rollback = IF ok THEN "done" ELSE "failed",
                    ![p].result = "None",
                    ![p].pc = "finally"]
    /\ QueryFrame

Closed_leaked(connection) == connection

(* finally: if connection: connection.close() *)
Closed(connection) == IF connection = "open" THEN "closed" ELSE connection

(* leaving the with block: get_db_connection resumes into its finally *)
Finally(p) ==
    /\ procs[p].pc = "finally"
    /\ procs' = [procs EXCEPT
                    ![p].connection = Closed(procs[p].connection),
                    ![p].txn = IF /\ procs[p].txn = "open"
                                  /\ Closed(procs[p].connection) = "closed"
                               THEN "discarded" ELSE procs[p].txn,
                    ![p].pc = "returned"]
    /\ QueryFrame

(* the caller has the result *)
QueryReturn(p) ==
    /\ procs[p].pc = "returned"
    /\ procs' = [procs EXCEPT ![p].pc = "idle"]
    /\ QueryFrame

NextQuery ==
    \E p \in Terminals :
        \/ \E commit \in BOOLEAN, fetch \in BOOLEAN : QueryStart(p, commit, fetch)
        \/ \E ok \in BOOLEAN : Connect(p, ok)
        \/ NoConnection(p)
        \/ \E ok \in BOOLEAN : Execute(p, ok)
        \/ \E ok \in BOOLEAN : Commit(p, ok)
        \/ \E ok \in BOOLEAN : Fetch(p, ok)
        \/ Except(p)
        \/ \E ok \in BOOLEAN : Rollback(p, ok)
        \/ Finally(p)
        \/ QueryReturn(p)

SpecQuery == InitQuery /\ [][NextQuery]_vars

-----------------------------------------------------------------------------
(* Properties *)

ActiveLoansOn(b) ==
    {l \in DOMAIN loans : loans[l].book_id = b /\ loans[l].return_date = NULL}

ClosedLoansOn(b) ==
    {l \in DOMAIN loans : loans[l].book_id = b /\ loans[l].return_date # NULL}

(* C1: with one terminal and every write committed, every book row has
   0 <= available_quantity <= quantity after any run of add_book,
   update_book, delete_book, borrow_book and return_book *)
QuantityWithinBounds ==
    \A b \in DOMAIN books :
        /\ 0 <= books[b].available_quantity
        /\ books[b].available_quantity <= books[b].quantity

(* a book borrowed, returned and borrowed again, whose total an update then
   tried to lower below the copy on loan *)
QuantityWitness ==
    \E b \in DOMAIN books :
        /\ ClosedLoansOn(b) # {}
        /\ ActiveLoansOn(b) # {}
        /\ books[b].available_quantity = 0
        /\ out = Msg("update_book", "InvalidState")

(* C2: a (user, book) pair never has two loan rows with return_date unset,
   and borrow_book by a user who holds an active loan on the book is
   rejected and inserts no loan row *)
OneActiveLoanPerPair ==
    /\ [](\A l1, l2 \in DOMAIN loans :
            (/\ loans[l1].user_id = loans[l2].user_id
             /\ loans[l1].book_id = loans[l2].book_id
             /\ loans[l1].return_date = NULL
             /\ loans[l2].return_date = NULL) => l1 = l2)
    /\ [][\A u \in UserIds, b \in StockedIds, ok1 \in BOOLEAN, ok2 \in BOOLEAN :
            (/\ \E l \in DOMAIN loans : /\ loans[l].user_id = u
                                        /\ loans[l].book_id = b
                                        /\ loans[l].return_date = NULL
             /\ borrow_book(u, b, ok1, ok2))
            => /\ loans' = loans
               /\ out'.op = "borrow_book"
               /\ out'.result \in {"Conflict", "Unavailable"}]_vars

(* a second borrow of a book the reader holds was turned down *)
OneActiveLoanWitness ==
    /\ session # NULL
    /\ out = Msg("borrow_book", "Conflict")
    /\ \E l \in DOMAIN loans : /\ loans[l].user_id = session[1].user_id
                               /\ loans[l].return_date = NULL

(* tok is one of the comma-separated, whitespace-trimmed entries of the
   permission list perms *)
IsEntry(perms, tok) ==
    /\ perms # NULL
    /\ LET str == perms[1]
       IN  \E i \in 1..Len(str), j \in 1..Len(str) :
               /\ i <= j
               /\ (i = 1 \/ str[i - 1] = ",")
               /\ (j = Len(str) \/ str[j + 1] = ",")
               /\ \E k \in i..j : /\ str[k] = tok
                                  /\ \A m \in (i..j) \ {k} : str[m] = " "

Passes(current_user, tok) ==
    current_user.role = "superadmin" \/ IsEntry(current_user.permissions, tok)

GateRule(Handler, tok) ==
    Handler => /\ out'.op = tok
               /\ (out'.result = "PermissionDenied") <=> ~Passes(session[1], tok)
               /\ ~Passes(session[1], tok) => UNCHANGED tables

(* C3: each of add_book, update_book, delete_book, add_user, update_user and
   delete_user lets a superadmin session through whatever its permission
   list, lets another session through iff the capability of the handler's
   name is a trimmed comma-separated entry of its list, and leaves books,
   users and loans unchanged for a session it does not let through *)
PermissionGate ==
    [][/\ GateRule(GateAddBook, "add_book")
       /\ GateRule(GateUpdateBook, "update_book")
       /\ GateRule(GateDeleteBook, "delete_book")
       /\ GateRule(GateAddUser, "add_user")
       /\ GateRule(GateUpdateUser, "update_user")
       /\ GateRule(GateDeleteUser, "delete_user")]_vars

(* an admin whose list is " add_book" has added a book *)
PermissionGateWitness ==
    /\ session[1].role = "admin"
    /\ session[1].permissions = Some(<<" ", "add_book">>)
    /\ out = Msg("add_book", "success")
    /\ books # NoBooks

(* C4: borrow_book and return_book apply their loan-table write and their
   available_quantity write both or neither, also when a write fails *)
WritesAtomic ==
    [][\A u \in UserIds, ok1 \in BOOLEAN, ok2 \in BOOLEAN :
          /\ \A b \in StockedIds :
                borrow_book(u, b, ok1, ok2)
                    => ((loans' # loans) <=> (books' # books))
          /\ \A l \in LoanIds :
                return_book(u, l, ok1, ok2)
                    => ((loans' # loans) <=> (books' # books))]_vars

(* C5: delete_user called with the id of the calling session's own account
   leaves the users table unchanged *)
NoSelfDeletion ==
    [][\A confirm \in BOOLEAN, ok \in BOOLEAN :
          (/\ session # NULL
           /\ delete_user(session[1], session[1].user_id, confirm, ok))
          => users' = users]_vars

(* C6: with two terminals interleaving the queries of borrow_book, the
   active loans on a book never outnumber its copies *)
CopiesNeverOverLent ==
    \A b \in DOMAIN books : Cardinality(ActiveLoansOn(b)) <= books[b].quantity

BorrowPost(u, b) ==
    LET refused(result) == /\ out' = Msg("borrow_book", result)
                           /\ UNCHANGED <<loans, books>>
    IN  IF b \notin DOMAIN books THEN refused("NotFound")
        ELSE IF books[b].available_quantity = 0 THEN refused("Unavailable")
        ELSE IF \E l \in DOMAIN loans : /\ loans[l].user_id = u
                                        /\ loans[l].book_id = b
                                        /\ loans[l].return_date = NULL
        THEN refused("Conflict")
        ELSE /\ out' = Msg("borrow_book", "success")
             /\ \E l \in DOMAIN loans' \ DOMAIN loans :
                    /\ DOMAIN loans' = DOMAIN loans \cup {l}
                    /\ loans'[l] = [user_id |-> u, book_id |-> b,
                                    loan_date |-> today,
                                    due_date |-> today + LoanDays,
                                    return_date |-> NULL]
             /\ \A k \in DOMAIN loans : loans'[k] = loans[k]
             /\ DOMAIN books' = DOMAIN books
             /\ books'[b].available_quantity = books[b].available_quantity - 1
             /\ books'[b].quantity = books[b].quantity
             /\ \A c \in DOMAIN books \ {b} : books'[c] = books[c]

(* C7: borrow_book refuses, changing neither loans nor books, an unknown
   book (NotFound), else a book with no available copy (Unavailable), else
   a book the user holds an active loan on (Conflict); otherwise, its
   writes committed, it inserts one active loan of the user on the book due
   14 days after its loan date and lowers that book's available_quantity by
   one, leaving every other loan and book as it was *)
BorrowContract ==
    [][\A u \in UserIds, b \in StockedIds :
          borrow_book(u, b, TRUE, TRUE) => BorrowPost(u, b)]_vars

(* a loan taken out today, on a later day than the first *)
BorrowWitness ==
    /\ out = Msg("borrow_book", "success")
    /\ today > 0
    /\ \E l \in DOMAIN loans : /\ loans[l].loan_date = today
                               /\ loans[l].due_date = today + LoanDays
                               /\ loans[l].return_date = NULL
                               /\ books[loans[l].book_id].available_quantity = 0

(* C8: return_book changes loans or books only for a loan_id whose row
   belongs to the calling user and has return_date unset; for any other
   loan_id it reports NotFound and changes nothing *)
ReturnOnlyOwnActiveLoan ==
    [][\A u \in UserIds, l \in LoanIds, ok1 \in BOOLEAN, ok2 \in BOOLEAN :
          (/\ return_book(u, l, ok1, ok2)
           /\ ~(/\ l \in DOMAIN loans
                /\ loans[l].user_id = u
                /\ loans[l].return_date = NULL))
          => /\ UNCHANGED <<loans, books>>
             /\ out' = Msg("return_book", "NotFound")]_vars

(* a return was refused while the other reader holds a loan and a loan of
   the caller is already closed *)
ReturnRefusedWitness ==
    /\ session # NULL
    /\ out = Msg("return_book", "NotFound")
    /\ \E l \in DOMAIN loans : /\ loans[l].user_id # session[1].user_id
                               /\ loans[l].return_date = NULL
    /\ \E l \in DOMAIN loans : /\ loans[l].user_id = session[1].user_id
                               /\ loans[l].return_date # NULL

(* n times: borrow_book of book_id by user_id on day, then return_book of
   the loan it created on return_day *)
RECURSIVE BorrowReturnTimes(_, _, _, _, _, _, _, _)
BorrowReturnTimes(bks, lns, nid, day, return_day, user_id, book_id, n) ==
    IF n = 0 THEN [books |-> bks, loans |-> lns, nextLoanId |-> nid, ok |-> TRUE]
    ELSE LET b == borrow_book_result(bks, lns, nid, day, user_id, book_id,
                                     TRUE, TRUE)
             r == return_book_result(b.books, b.loans, return_day, user_id,
                                     nid, TRUE, TRUE)
             rest == BorrowReturnTimes(r.books, r.loans, b.nextLoanId, day,
                                       return_day, user_id, book_id, n - 1)
         IN  [rest EXCEPT !.ok = /\ b.out = "success"
                                 /\ r.out = "success"
                                 /\ rest.ok]

(* C9: its writes committed, a successful borrow_book followed by
   return_book of the loan it created leaves the book's available_quantity
   and quantity as they were, and so does doing the two N times over *)
BorrowThenReturnRestores ==
    \A u \in DOMAIN users, b \in DOMAIN books, d \in today..MaxDay :
        borrow_book_result(books, loans, nextLoanId, today, u, b,
                           TRUE, TRUE).out = "success"
        => \A n \in 1..MaxRepeat :
               LET r == BorrowReturnTimes(books, loans, nextLoanId, today, d,
                                          u, b, n)
               IN  /\ r.ok
                   /\ r.books[b].available_quantity = books[b].available_quantity
                   /\ r.books[b].quantity = books[b].quantity

(* a reader has just returned a loan and may borrow the book again *)
BorrowThenReturnWitness ==
    /\ session # NULL
    /\ out = Msg("return_book", "success")
    /\ \E l \in DOMAIN loans :
           /\ loans[l].user_id = session[1].user_id
           /\ loans[l].return_date # NULL
           /\ loans[l].book_id \in DOMAIN books
           /\ ActiveLoansOn(loans[l].book_id) = {}
           /\ books[loans[l].book_id] = StockedBooks[loans[l].book_id]
           /\ borrow_book_result(books, loans, nextLoanId, today,
                                 session[1].user_id, loans[l].book_id,
                                 TRUE, TRUE).out = "success"

(* C10: a loan row is created by borrow_book with return_date unset, is
   changed only by return_book setting its return_date, is never changed
   again once return_date is set, and is never deleted *)
LoanLifecycle ==
    [][/\ \A l \in DOMAIN loans :
             /\ l \in DOMAIN loans'
             /\ loans[l].return_date # NULL => loans'[l] = loans[l]
             /\ loans'[l] # loans[l]
                    => /\ out' = Msg("return_book", "success")
                       /\ loans'[l] = [loans[l] EXCEPT
                                          !.return_date = Some(today)]
       /\ \A l \in DOMAIN loans' \ DOMAIN loans :
             /\ loans'[l].return_date = NULL
             /\ out' = Msg("borrow_book", "success")]_vars

(* a reader borrowed again, on a later day, a book whose earlier loan is
   closed *)
LoanLifecycleWitness ==
    \E l1 \in DOMAIN loans, l2 \in DOMAIN loans :
        /\ loans[l1].user_id = loans[l2].user_id
        /\ loans[l1].book_id = loans[l2].book_id
        /\ loans[l1].return_date # NULL
        /\ loans[l2].return_date = NULL
        /\ loans[l2].loan_date > loans[l1].loan_date

(* C11: for an actor that passes the permission gate, delete_book of a book
   with available_quantity < quantity and delete_user of a user with an
   active loan fail and leave books, users and loans unchanged *)
DeleteRefusedWhileOnLoan ==
    [][\A confirm \in BOOLEAN, ok \in BOOLEAN :
          session # NULL =>
          /\ \A b \in DOMAIN books :
                (/\ books[b].available_quantity < books[b].quantity
                 /\ Passes(session[1], "delete_book")
                 /\ delete_book(session[1], b, confirm, ok))
                => /\ UNCHANGED tables
                   /\ out' = Msg("delete_book", "Conflict")
          /\ \A u \in DOMAIN users :
                (/\ \E l \in DOMAIN loans : /\ loans[l].user_id = u
                                            /\ loans[l].return_date = NULL
                 /\ Passes(session[1], "delete_user")
                 /\ delete_user(session[1], u, confirm, ok))
                => /\ UNCHANGED tables
                   /\ out'.op = "delete_user"
                   /\ out'.result \in {"Conflict", "RoleDenied"}]_vars

(* the admin holding delete_user was refused the deletion of a reader who
   has a book out *)
DeleteRefusedWitness ==
    /\ session # NULL
    /\ session[1].role = "admin"
    /\ out = Msg("delete_user", "Conflict")
    /\ \E l \in DOMAIN loans :
           /\ loans[l].return_date = NULL
           /\ loans[l].user_id \in DOMAIN users
           /\ books[loans[l].book_id].available_quantity
                  < books[loans[l].book_id].quantity

(* C12: for an actor whose session role is not superadmin, update_user and
   delete_user leave users unchanged when the target's stored role is admin
   or superadmin, and update_user leaves users unchanged when the target is
   the actor's own account *)
StaffHierarchy ==
    [][\A u \in DOMAIN users :
          (/\ session # NULL
           /\ session[1].role # "superadmin"
           /\ users' # users)
          => \A confirm \in BOOLEAN, ok \in BOOLEAN :
                /\ users[u].role \in {"admin", "superadmin"}
                       => ~delete_user(session[1], u, confirm, ok)
                /\ (users[u].role \in {"admin", "superadmin"}
                        \/ u = session[1].user_id)
                       => \A username \in Optional(NewUsernames),
                             role_input \in Optional(RoleInputs) :
                                ~update_user(session[1], u, username, role_input,
                                             confirm, ok)]_vars

(* the admin holding delete_user was refused the deletion of the superadmin *)
StaffHierarchyWitness ==
    /\ session # NULL
    /\ session[1].role = "admin"
    /\ Passes(session[1], "delete_user")
    /\ out = Msg("delete_user", "RoleDenied")
    /\ \E u \in DOMAIN users : users[u].role = "superadmin"

(* C13: update_user by an actor whose session role is not superadmin leaves
   the target's stored role as it was, and an update_user that changes a
   target's role from admin or superadmin to reader leaves the target's
   permission list empty *)
RoleChangeBySuperadminOnly ==
    [][\A u \in DOMAIN users :
          (/\ session # NULL
           /\ out'.op = "update_user"
           /\ (u \notin DOMAIN users' \/ users'[u] # users[u]))
          => \A username \in Optional(NewUsernames),
                role_input \in Optional(RoleInputs), ok \in BOOLEAN :
                 update_user(session[1], u, username, role_input, TRUE, ok)
                 => /\ u \in DOMAIN users'
                    /\ session[1].role # "superadmin"
                           => users'[u].role = users[u].role
                    /\ (/\ users[u].role \in {"admin", "superadmin"}
                        /\ users'[u].role = "reader")
                           => users'[u].permissions = Some(<<>>)]_vars

(* the superadmin has made a reader of the admin who held permissions *)
RoleChangeWitness ==
    /\ session # NULL
    /\ session[1].role = "superadmin"
    /\ out = Msg("update_user", "success")
    /\ \E u \in DOMAIN users :
           /\ AdminUsers[u].role = "admin"
           /\ AdminUsers[u].permissions # Some(<<>>)
           /\ users[u].role = "reader"
           /\ users[u].permissions = Some(<<>>)

(* C14: add_user creates a user only with role reader or admin and an empty
   permission list; a role outside reader and admin, and role admin asked
   for by an actor who is not superadmin, are rejected with users unchanged *)
AddUserRoles ==
    [][\A username \in NewUsernames, role_input \in RoleInputs, ok \in BOOLEAN :
          (/\ session # NULL
           /\ out'.op = "add_user"
           /\ add_user(session[1], username, role_input, ok))
          => LET role == IF role_input = "Admin" THEN "admin" ELSE role_input
             IN  /\ (\/ role \notin {"reader", "admin"}
                     \/ role = "admin" /\ session[1].role # "superadmin")
                        => /\ users' = users
                           /\ out'.result \in {"PermissionDenied", "RoleDenied",
                                               "InvalidInput"}
                 /\ users' # users
                        => \E id \in DOMAIN users' \ DOMAIN users :
                              /\ DOMAIN users' = DOMAIN users \cup {id}
                              /\ \A v \in DOMAIN users : users'[v] = users[v]
                              /\ users'[id] = [username |-> username,
                                               role |-> role,
                                               permissions |-> Some(<<>>)]
                              /\ role \in {"reader", "admin"}]_vars

(* the admin holding add_user has created a reader *)
AddUserWitness ==
    /\ session # NULL
    /\ session[1].role = "admin"
    /\ out = Msg("add_user", "success")
    /\ \E u \in DOMAIN users \ DOMAIN AdminUsers :
           /\ users[u].role = "reader"
           /\ users[u].permissions = Some(<<>>)

(* C15: add_book, its write committed, inserts a book exactly when the
   quantity is positive and no book has the same title and author; the new
   row has available_quantity = quantity; a rejected call leaves books
   unchanged *)
AddBookContract ==
    [][\A title \in Titles, author \in Authors, quantity \in 0..MaxQty :
          (/\ session # NULL
           /\ Passes(session[1], "add_book")
           /\ out'.op = "add_book"
           /\ add_book(session[1], title, author, quantity, TRUE))
          => IF /\ quantity > 0
                /\ ~\E b \in DOMAIN books : /\ books[b].title = title
                                            /\ books[b].author = author
             THEN \E id \in DOMAIN books' \ DOMAIN books :
                     /\ DOMAIN books' = DOMAIN books \cup {id}
                     /\ \A b \in DOMAIN books : books'[b] = books[b]
                     /\ books'[id] = [title |-> title, author |-> author,
                                      quantity |-> quantity,
                                      available_quantity |-> quantity]
             ELSE /\ books' = books
                  /\ out'.result \in {"InvalidInput", "Conflict"}]_vars

(* a second book of the same title and author was turned down *)
AddBookWitness ==
    /\ out = Msg("add_book", "Conflict")
    /\ \E b \in DOMAIN books :
           /\ books[b].quantity > 0
           /\ books[b].available_quantity = books[b].quantity

Min(a, b) == IF a <= b THEN a ELSE b

(* C16: a confirmed update_book, its write committed, with new total N on a
   book with total Q and A available sets quantity = N and
   available_quantity = min(A + (N - Q), N), keeping quantity -
   available_quantity as it was; when N < 0 or A + (N - Q) < 0 it fails and
   leaves the row unchanged *)
UpdateBookContract ==
    [][\A b \in DOMAIN books, N \in -1..MaxQty :
          (/\ session # NULL
           /\ Passes(session[1], "update_book")
           /\ out'.op = "update_book"
           /\ update_book(session[1], b, NULL, NULL, [kind |-> "int", val |-> N],
                          TRUE, TRUE))
          => LET Q == books[b].quantity
                 A == books[b].available_quantity
             IN  IF N < 0 \/ A + (N - Q) < 0
                 THEN /\ books' = books
                      /\ out'.result \in {"InvalidInput", "InvalidState"}
                 ELSE /\ out'.result = "success"
                      /\ DOMAIN books' = DOMAIN books
                      /\ \A c \in DOMAIN books \ {b} : books'[c] = books[c]
                      /\ books'[b].quantity = N
                      /\ books'[b].available_quantity = Min(A + (N - Q), N)
                      /\ books'[b].quantity - books'[b].available_quantity
                             = Q - A]_vars

(* the book with a copy on loan was cut down to that one copy *)
UpdateBookWitness ==
    /\ out = Msg("update_book", "success")
    /\ \E b \in DOMAIN books :
           /\ ActiveLoansOn(b) # {}
           /\ books[b].quantity < LentBooks[b].quantity
           /\ books[b].available_quantity = 0
           /\ books[b].quantity = Cardinality(ActiveLoansOn(b))

(* C17: assign_role, assign_permissions and assign_role_permissions change
   users only for a session whose role is superadmin; assign_role and
   assign_role_permissions never change a target whose stored role is
   superadmin; and a role written by assign_role leaves the target's
   permission list empty, also when the role is the one it had *)
AssignBySuperadminOnly ==
    [][\A u \in UserIds, confirm \in BOOLEAN :
          (session # NULL /\ (users' # users \/ out'.result = "success")) =>
          /\ out'.op = "assign_role" =>
                \A role_input \in RoleInputs :
                   assign_role(session[1], u, role_input, confirm, TRUE)
                   => /\ session[1].role # "superadmin" => users' = users
                      /\ (u \in DOMAIN users /\ users[u].role = "superadmin")
                             => users' = users
                      /\ (users' # users \/ out'.result = "success")
                             => /\ users'[u].permissions = Some(<<>>)
                                /\ \A v \in DOMAIN users \ {u} :
                                       users'[v] = users[v]
          /\ out'.op = "assign_permissions" =>
                \A perms_input \in PermsInputs :
                   assign_permissions(session[1], u, perms_input, confirm, TRUE)
                   => (session[1].role # "superadmin" => users' = users)
          /\ out'.op = "assign_role_permissions" =>
                \A role_input \in RoleInputs, perms_input \in PermsInputs :
                   assign_role_permissions(session[1], u, role_input, perms_input,
                                           confirm, TRUE)
                   => /\ session[1].role # "superadmin" => users' = users
                      /\ (u \in DOMAIN users /\ users[u].role = "superadmin")
                             => users' = users]_vars

(* assign_role gave the admin who held permissions the admin role again, and
   the permissions are gone *)
AssignRoleWitness ==
    /\ session # NULL
    /\ session[1].role = "superadmin"
    /\ out = Msg("assign_role", "success")
    /\ \E u \in DOMAIN users :
           /\ AdminUsers[u].role = "admin"
           /\ AdminUsers[u].permissions # Some(<<>>)
           /\ users[u].role = "admin"
           /\ users[u].permissions = Some(<<>>)

Capabilities == {"add_book", "update_book", "delete_book", "add_user",
                 "update_user", "delete_user", "view_reports"}

(* the comma-free stretches of str between two commas or ends *)
Entries(str) ==
    {e \in (1..Len(str)) \X (1..Len(str)) :
        /\ e[1] <= e[2]
        /\ (e[1] = 1 \/ str[e[1] - 1] = ",")
        /\ (e[2] = Len(str) \/ str[e[2] + 1] = ",")
        /\ \A k \in e[1]..e[2] : str[k] # ","}

(* blank, or one capability with blanks around it *)
KnownEntry(str, e) ==
    \/ \A k \in e[1]..e[2] : str[k] = " "
    \/ \E k \in e[1]..e[2] : /\ str[k] \in Capabilities
                             /\ \A m \in (e[1]..e[2]) \ {k} : str[m] = " "

UnknownTokens(str) ==
    {Strip(SubSeq(str, e[1], e[2])) : e \in {x \in Entries(str) : ~KnownEntry(str, x)}}

(* the lists typed at the prompt that hold an unknown entry *)
UnknownInputs == {p \in PermsInputs : UnknownTokens(p) # {}}

(* C18: every entry of every stored permission list is one of add_book,
   update_book, delete_book, add_user, update_user, delete_user,
   view_reports; assign_permissions and assign_role_permissions, given a
   list with an unknown entry, leave users unchanged and name every unknown
   entry in one InvalidInput message *)
PermissionsClosed ==
    /\ [](\A u \in DOMAIN users :
            users[u].permissions # NULL
            => \A e \in Entries(users[u].permissions[1]) :
                   KnownEntry(users[u].permissions[1], e))
    /\ [][\A u \in DOMAIN users, perms_input \in UnknownInputs, confirm \in BOOLEAN :
            (/\ session # NULL
             /\ session[1].role = "superadmin")
            => /\ (/\ users[u].role = "admin"
                   /\ out'.op = "assign_permissions"
                   /\ assign_permissions(session[1], u, perms_input, confirm, TRUE))
                  => /\ users' = users
                     /\ out'.result = "InvalidInput"
                     /\ Range(out'.invalid) = UnknownTokens(perms_input)
               /\ \A role_input \in {"admin", "Admin"} :
                     (/\ users[u].role # "superadmin"
                      /\ out'.op = "assign_role_permissions"
                      /\ assign_role_permissions(session[1], u, role_input,
                                                 perms_input, confirm, TRUE))
                     => /\ users' = users
                        /\ out'.result = "InvalidInput"
                        /\ Range(out'.invalid) = UnknownTokens(perms_input)]_vars

(* a list with two unknown entries was turned down while an admin holds a
   list stored from an input with blanks *)
PermissionsClosedWitness ==
    /\ out.op = "assign_permissions"
    /\ out.result = "InvalidInput"
    /\ Len(out.invalid) = 2
    /\ \E u \in DOMAIN users :
           users[u].permissions = Some(<<"view_reports", ",", "add_user">>)

(* C19: when a write issued by a handler fails, the handler displays no
   success message and leaves the tables as they were *)
SuccessOnlyIfCommitted ==
    [][faults' > faults
          => /\ out'.result # "success"
             /\ UNCHANGED tables]_vars

(* C20: every execute_query call that opened a connection has closed it when
   it returns, whether it fetched, committed, raised or never connected; a
   commit-mode call in which pymysql.Error was raised has called rollback
   and returns None with nothing committed or left open *)
ConnectionReleased ==
    \A p \in Terminals :
        procs[p].pc \in {"returned", "idle"}
        => /\ procs[p].connection # "open"
           /\ procs[p].txn # "open"
           /\ (procs[p].commit /\ procs[p].raised)
                  => /\ procs[p].result = "None"
                     /\ procs[p].rollback # "no"
                     /\ procs[p].txn # "committed"

(* one call has returned None after a failed commit was rolled back, the
   other has returned a fetched value, both with their connection closed *)
ConnectionReleasedWitness ==
    \E p \in Terminals, q \in Terminals :
        /\ procs[p].pc = "returned"
        /\ procs[p].commit
        /\ procs[p].raised
        /\ procs[p].txn = "rolled_back"
        /\ procs[p].connection = "closed"
        /\ procs[q].pc = "returned"
        /\ ~procs[q].commit
        /\ procs[q].result = "value"
        /\ procs[q].connection = "closed"

(* C21: with one session, operations one at a time and every write
   committed, quantity - available_quantity of every book is the number of
   its loans with return_date unset, and a book that delete_book removes has
   no such loan *)
LoanedCopiesCounted ==
    /\ [](\A b \in DOMAIN books :
             books[b].quantity - books[b].available_quantity
                 = Cardinality(ActiveLoansOn(b)))
    /\ [][\A b \in DOMAIN books :
             b \notin DOMAIN books' => ActiveLoansOn(b) = {}]_vars

(* a book has just been deleted while another one is out on loan *)
LoanedCopiesWitness ==
    /\ out = Msg("delete_book", "success")
    /\ \E b \in 1..(nextBookId - 1) : b \notin DOMAIN books
    /\ \E b \in DOMAIN books :
           /\ ActiveLoansOn(b) # {}
           /\ books[b].available_quantity < books[b].quantity

(* C22: every step that changes the users table is taken by a session whose
   stored user row, at that moment, exists and grants the operation: its
   stored role is superadmin or its stored permission list has the
   operation's capability *)
StoredRecordGrants ==
    [][users' # users
          => /\ session # NULL
             /\ session[1].user_id \in DOMAIN users
             /\ Passes([role |-> users[session[1].user_id].role,
                        permissions |-> users[session[1].user_id].permissions],
                       out'.op)]_vars

(* C23: a confirmed update_user whose username prompt is left blank leaves
   the stored username of the target as it was, whoever the actor and the
   target are *)
BlankKeepsUsername ==
    [][\A u \in DOMAIN users, role_input \in Optional(RoleInputs),
          ok \in BOOLEAN :
          (/\ session # NULL
           /\ update_user(session[1], u, NULL, role_input, TRUE, ok))
          => /\ u \in DOMAIN users'
             /\ users'[u].username = users[u].username]_vars

(* C24: a user whose stored role is superadmin and who still exists after a
   step has the stored role superadmin after it *)
SuperadminRoleKept ==
    [][\A u \in DOMAIN users :
          (users[u].role = "superadmin" /\ u \in DOMAIN users')
          => users'[u].role = "superadmin"]_vars

(* C25: the offer made after a failed login creates a superadmin account
   only when the users table holds no superadmin account *)
BootstrapOnlyWithoutSuperadmin ==
    [][(out'.op = "create_initial_admin" /\ users' # users)
          => ~\E u \in DOMAIN users : users[u].role = "superadmin"]_vars

(* C26: no two books have the same title and author, after any run of
   add_book, update_book and delete_book *)
TitleAuthorUnique ==
    \A b \in DOMAIN books, c \in DOMAIN books :
        (books[b].title = books[c].title /\ books[b].author = books[c].author)
        => b = c

(* C27: every user whose stored permission list is not empty has the stored
   role admin, so every reader has an empty list, after any run of add_user,
   update_user, assign_role, assign_permissions and assign_role_permissions *)
PermissionsOnlyForAdmins ==
    \A u \in DOMAIN users :
        users[u].permissions \notin {NULL, Some(<<>>)} => users[u].role = "admin"

(* the admin that held three capabilities has been made a reader by
   update_user and holds none, while the former reader is an admin with a
   capability *)
PermissionsOnlyForAdminsWitness ==
    /\ out = Msg("update_user", "success")
    /\ 3 \in DOMAIN users
    /\ users[3].role = "reader"
    /\ users[3].permissions = Some(<<>>)
    /\ 2 \in DOMAIN users
    /\ users[2].role = "admin"
    /\ users[2].permissions \notin {NULL, Some(<<>>)}

====
